---- MODULE Spec2Model ----
(***************************************************************************)
(* Routing and delivery engine of the tool-agent-swarm orchestrator:       *)
(*   orchestrator/server.py  SequentialTaskQueue, verify_token, chat       *)
(*   orchestrator/router.py  Router (configuration reload, sessions,       *)
(*                           send_message, _invoke_model)                  *)
(* asyncio is cooperative: a coroutine runs without interruption from one  *)
(* suspension point (a real await on the network, a sleep, a future, the   *)
(* thread pool) to the next, so each action below is one such run.         *)
(* Python semantics are those of CPython >= 3.8, where                     *)
(* asyncio.CancelledError derives from BaseException.                      *)
(***************************************************************************)
EXTENDS Integers, Sequences, FiniteSets, TLC

\* ------------------------------------------------------------------ bounds
NumCallers == 3        \* concurrent /chat requests
RouterCallers == 2     \* of them, requests made while the source is being changed
MaxEdits == 1          \* changes of the configuration source on disk
MaxStartCalls == 2     \* calls of SequentialTaskQueue.start

Callers == 1..NumCallers

\* -------------------------------------------------------------------- text
\* A text is a sequence of one-character strings.
WhitespaceChars == {" ", "\n"}

RECURSIVE LStrip(_)
LStrip(s) ==
    IF s = <<>> THEN <<>>
    ELSE IF Head(s) \in WhitespaceChars THEN LStrip(Tail(s)) ELSE s

RECURSIVE RStrip(_)
RStrip(s) ==
    IF s = <<>> THEN <<>>
    ELSE IF s[Len(s)] \in WhitespaceChars THEN RStrip(SubSeq(s, 1, Len(s) - 1)) ELSE s

\* str.strip()
Strip(s) == RStrip(LStrip(s))

PromptPM1 == <<"P", "M", "1">>
PromptPM2 == <<"P", "M", "2">>
PromptW1 == <<"W", "1">>
NoText == <<>>
Hello == <<"h", "e", "l", "l", "o">>
Hey == <<"h", "e", "y">>
\* "The previous reply was empty or off-topic. Provide a concise self-summary ..."
CorrectiveText == <<"s", "e", "l", "f", "-", "s", "u", "m", "m", "a", "r", "y">>

Turn(role, content) == [role |-> role, content |-> content]

\* --------------------------------------------------------------- exceptions
\* An exception value: its Python class, what raised it, the task (caller id)
\* in which it was raised (0 outside a task) and the delivery attempt that
\* raised it (0 when it is not raised by an attempt).
Exc(type, what, c, n) == [type |-> type, what |-> what, task |-> c, attempt |-> n]
NoExc == Exc("None", "", 0, 0)

\* Python's class hierarchy: json.JSONDecodeError is a subclass of ValueError.
IsInstance(e, cls) ==
    \/ e.type = cls
    \/ cls = "ValueError" /\ e.type = "JSONDecodeError"
    \/ cls = "Exception" /\ e.type \notin {"None", "CancelledError"}

\* ------------------------------------------------ raw configuration values
\* A value as yaml.safe_load returns it: absent key, number, string, bool, null.
Absent == [t |-> "absent", n |-> 0, s |-> ""]
Num(n) == [t |-> "num", n |-> n, s |-> ""]
Str(s) == [t |-> "str", n |-> 0, s |-> s]
Bool(b) == [t |-> "bool", n |-> IF b THEN 1 ELSE 0, s |-> ""]
Null == [t |-> "null", n |-> 0, s |-> ""]

\* mapping.get(key, default)
Get(raw, default) == IF raw.t = "absent" THEN default ELSE raw

\* float(x) / int(x): numbers and bools convert, a non-numeric string raises
\* ValueError, None raises TypeError.  Seconds are whole numbers here.
ToNumber(raw) ==
    CASE raw.t \in {"num", "bool"} -> [ok |-> TRUE, v |-> raw.n, exc |-> "None"]
      [] raw.t = "str" -> [ok |-> FALSE, v |-> 0, exc |-> "ValueError"]
      [] OTHER -> [ok |-> FALSE, v |-> 0, exc |-> "TypeError"]

\* bool(x)
ToBool(raw) ==
    CASE raw.t \in {"num", "bool"} -> raw.n # 0
      [] raw.t = "str" -> raw.s # ""
      [] OTHER -> FALSE

\* security.get("token_env"): the string, or None
ToTokenEnv(raw) == IF raw.t = "str" THEN raw.s ELSE ""

DefaultRequestSec == 120
\* a connect default copied from the request default
DefaultConnectSecAsRequest == DefaultRequestSec

DefaultConnectSec == 10
DefaultMaxAttempts == 2
DefaultBaseBackoffSec == 2
DefaultModel == "local-model"

\* ------------------------------------------------------ configuration source
\* What is on disk: models.yaml (absent, or one of the versions below, with a
\* modification time) and the prompt files its agents name.
AgentEntry(name, path, model) ==
    [name |-> name, endpoint |-> <<"http", name>>, system_prompt |-> path, model |-> model]

\* path -> text, for the prompt files that exist
Files(pm, worker) ==
    [p \in ({"pm.md"} \cup (IF worker = NoText THEN {} ELSE {"worker.md"})) |->
        IF p = "pm.md" THEN pm ELSE worker]

NoSection == [a |-> Absent, b |-> Absent]

SourceVersions == <<
    \* 1: two agents, every optional section absent
    [agents |-> <<AgentEntry("pm", "pm.md", Absent), AgentEntry("A", "worker.md", Absent)>>,
     files |-> Files(PromptPM1, PromptW1),
     timeouts |-> NoSection, retries |-> NoSection, security |-> NoSection],
    \* 2: agent A removed, pm's prompt rewritten, one attempt, security on
    [agents |-> <<AgentEntry("pm", "pm.md", Str("gpt"))>>,
     files |-> Files(PromptPM2, PromptW1),
     timeouts |-> [a |-> Num(5), b |-> Absent],
     retries |-> [a |-> Num(1), b |-> Absent],
     security |-> [a |-> Str("TEST_TOKEN"), b |-> Bool(TRUE)]],
    \* 3: three attempts, base backoff 1, the worker prompt file is missing
    [agents |-> <<AgentEntry("pm", "pm.md", Absent), AgentEntry("A", "worker.md", Absent)>>,
     files |-> Files(PromptPM2, NoText),
     timeouts |-> NoSection,
     retries |-> [a |-> Num(3), b |-> Num(1)],
     security |-> NoSection],
    \* 4: three attempts, base backoff 1, both prompts present, agents reordered
    [agents |-> <<AgentEntry("A", "worker.md", Absent), AgentEntry("pm", "pm.md", Absent)>>,
     files |-> Files(PromptPM2, PromptW1),
     timeouts |-> [a |-> Num(30), b |-> Num(3)],
     retries |-> [a |-> Num(3), b |-> Num(1)],
     security |-> NoSection],
    \* 5: a retry value that int() rejects
    [agents |-> <<AgentEntry("pm", "pm.md", Absent)>>,
     files |-> Files(PromptPM1, PromptW1),
     timeouts |-> [a |-> Num(7), b |-> Absent],
     retries |-> [a |-> Str("many"), b |-> Absent],
     security |-> [a |-> Str("TEST_TOKEN"), b |-> Bool(TRUE)]],
    \* 6: the first agent's prompt file is missing, the second's is present
    [agents |-> <<AgentEntry("A", "worker.md", Absent), AgentEntry("pm", "pm.md", Str("gpt"))>>,
     files |-> Files(PromptPM2, NoText),
     timeouts |-> [a |-> Num(5), b |-> Num(3)],
     retries |-> [a |-> Num(1), b |-> Num(1)],
     security |-> [a |-> Str("TEST_TOKEN"), b |-> Bool(TRUE)]]
>>

NoFile == 0
Versions == 1..Len(SourceVersions)

\* ------------------------------------------------------------ Router config
NoneMtime == 0

TimeoutConfig(request, connect) == [request_sec |-> request, connect_sec |-> connect]
RetryConfig(attempts, backoff) == [max_attempts |-> attempts, base_backoff_sec |-> backoff]
SecurityConfig(token, enabled) == [token_env |-> token, enabled |-> enabled]

EmptyMap == [k \in {} |-> 0]
Put(f, k, v) == [x \in DOMAIN f \cup {k} |-> IF x = k THEN v ELSE f[x]]

\* Router.__init__: the configuration fields
InitialConfig ==
    [config_mtime |-> NoneMtime,
     agent_configs |-> EmptyMap,
     system_prompts |-> EmptyMap,
     timeout_config |-> TimeoutConfig(DefaultRequestSec, DefaultConnectSec),
     retry_config |-> RetryConfig(DefaultMaxAttempts, DefaultBaseBackoffSec),
     security_config |-> SecurityConfig("", FALSE)]

\* AgentConfig.from_mapping
FromMapping(e) ==
    [endpoint |-> e.endpoint,
     system_prompt_path |-> e.system_prompt,
     model |-> IF e.model.t = "absent" THEN DefaultModel ELSE e.model.s]

\* a loop that skips an agent whose prompt file does not exist
RECURSIVE LoadAgentsSkipMissing(_, _, _, _)
LoadAgentsSkipMissing(entries, files, cfgs, prompts) ==
    IF entries = <<>> THEN [ok |-> TRUE, cfgs |-> cfgs, prompts |-> prompts]
    ELSE LET e == Head(entries)
             cfg == FromMapping(e)
         IN IF cfg.system_prompt_path \notin DOMAIN files
            THEN LoadAgentsSkipMissing(Tail(entries), files, cfgs, prompts)
            ELSE LoadAgentsSkipMissing(Tail(entries), files,
                                       Put(cfgs, e.name, cfg),
                                       Put(prompts, e.name, files[cfg.system_prompt_path]))

\* The loop over agents.items(): stops at the first agent whose prompt file
\* does not exist.
RECURSIVE LoadAgents(_, _, _, _)
LoadAgents(entries, files, cfgs, prompts) ==
    IF entries = <<>> THEN [ok |-> TRUE, cfgs |-> cfgs, prompts |-> prompts]
    ELSE LET e == Head(entries)
             cfg == FromMapping(e)
         IN IF cfg.system_prompt_path \notin DOMAIN files
            THEN [ok |-> FALSE, cfgs |-> cfgs, prompts |-> prompts]
            ELSE LoadAgents(Tail(entries), files,
                            Put(cfgs, e.name, cfg),
                            Put(prompts, e.name, files[cfg.system_prompt_path]))

\* a check written with `<`: an unchanged source is loaded again
IsFreshStrict(config_mtime, mtime) == config_mtime # NoneMtime /\ mtime < config_mtime

\* if self._config_mtime is not None and mtime <= self._config_mtime: return
IsFresh(config_mtime, mtime) == config_mtime # NoneMtime /\ mtime <= config_mtime

\* a handler of the missing file that falls back to the built-in defaults
OnConfigMissingCleared(R) == InitialConfig

\* except FileNotFoundError: raise RuntimeError("Configuration file missing"):
\* nothing is assigned before the raise
OnConfigMissing(R) == R

\* Router.ensure_latest_config on configuration fields R with `d` on disk.
\* Returns the fields afterwards and the exception raised ("None": returned).
EnsureLatestConfig(R, d) ==
    IF d.version = NoFile
    THEN [R |-> OnConfigMissing(R), exc |-> "RuntimeError", what |-> "ConfigMissing"]
    ELSE IF IsFresh(R.config_mtime, d.mtime) THEN [R |-> R, exc |-> "None", what |-> "fresh"]
    ELSE
    LET src == SourceVersions[d.version]
        loaded == LoadAgents(src.agents, src.files, EmptyMap, EmptyMap)
        req == ToNumber(Get(src.timeouts.a, Num(DefaultRequestSec)))
        con == ToNumber(Get(src.timeouts.b, Num(DefaultConnectSec)))
        att == ToNumber(Get(src.retries.a, Num(DefaultMaxAttempts)))
        bak == ToNumber(Get(src.retries.b, Num(DefaultBaseBackoffSec)))
        R1 == [R EXCEPT !.timeout_config = TimeoutConfig(req.v, con.v)]
        R2 == [R1 EXCEPT !.retry_config = RetryConfig(att.v, bak.v)]
        R3 == [R2 EXCEPT !.security_config =
                   SecurityConfig(ToTokenEnv(src.security.a),
                                  ToBool(Get(src.security.b, Bool(FALSE))))]
        R4 == [R3 EXCEPT !.agent_configs = loaded.cfgs,
                         !.system_prompts = loaded.prompts,
                         !.config_mtime = d.mtime]
    IN  IF ~loaded.ok THEN [R |-> R, exc |-> "RuntimeError", what |-> "PromptNotFound"]
        ELSE IF ~req.ok THEN [R |-> R, exc |-> req.exc, what |-> "request_sec"]
        ELSE IF ~con.ok THEN [R |-> R, exc |-> con.exc, what |-> "connect_sec"]
        ELSE IF ~att.ok THEN [R |-> R1, exc |-> att.exc, what |-> "max_attempts"]
        ELSE IF ~bak.ok THEN [R |-> R1, exc |-> bak.exc, what |-> "base_backoff_sec"]
        ELSE [R |-> R4, exc |-> "None", what |-> "reloaded"]

\* ------------------------------------------------------------------- requests
Targets == {"pm", "A"}
SessionIds == {"s1", "s2"}
\* request c carries its own message
MessageOf(c) == IF c % 2 = 1 THEN Hello ELSE Append(Hey, "0")
AuthCases == {"ok", "bad_header"}

\* ------------------------------------------------------ endpoint responses
Replies == {NoText, <<" ", "\n">>, <<"h", "i", "\n">>}
Other == <<"x">>

\* A decoded JSON body: whether it is an object, the keys it has, the message
\* contents of its `choices` list, its message.content and its content.
Body(isDict, keys, choices, message, content) ==
    [isDict |-> isDict, keys |-> keys, choices |-> choices,
     message |-> message, content |-> content]

Bodies ==
    {Body(TRUE, {"choices"}, <<r>>, NoText, NoText) : r \in Replies}
    \cup {Body(TRUE, {"choices", "message", "content"}, <<r, Other>>, Other, Other) : r \in Replies}
    \cup {Body(TRUE, {"message"}, <<>>, r, NoText) : r \in Replies}
    \cup {Body(TRUE, {"message", "content"}, <<>>, r, Other) : r \in Replies}
    \cup {Body(TRUE, {"content"}, <<>>, NoText, r) : r \in Replies}
    \cup {Body(TRUE, {"choices"}, <<>>, NoText, NoText),
          Body(TRUE, {}, <<>>, NoText, NoText),
          Body(FALSE, {}, <<>>, NoText, NoText)}

\* What one POST can come to: a transport failure, an error status, a body
\* that is not JSON, or a decoded body.
Outcomes ==
    {[kind |-> k, body |-> Body(FALSE, {}, <<>>, NoText, NoText)] :
        k \in {"transport", "status", "not_json"}}
    \cup {[kind |-> "body", body |-> b] : b \in Bodies}

NoOutcome == [kind |-> "none", body |-> Body(FALSE, {}, <<>>, NoText, NoText)]

\* a _send_request that looks at `message` before `choices`
SendRequestMessageFirst(o) ==
    LET ok(text) == [ok |-> TRUE, text |-> text, exc |-> "None"]
        raise(cls) == [ok |-> FALSE, text |-> NoText, exc |-> cls]
        b == o.body
    IN  CASE o.kind \in {"transport", "status"} -> raise("HTTPError")
          [] o.kind = "not_json" -> raise("JSONDecodeError")
          [] OTHER ->
               IF b.isDict /\ "message" \in b.keys THEN ok(b.message)
               ELSE IF b.isDict /\ "choices" \in b.keys
               THEN IF b.choices = <<>> THEN raise("IndexError") ELSE ok(b.choices[1])
               ELSE IF b.isDict /\ "content" \in b.keys THEN ok(b.content)
               ELSE raise("RuntimeError")

\* _send_request: the reply text, or the exception class raised
SendRequest(o) ==
    LET ok(text) == [ok |-> TRUE, text |-> text, exc |-> "None"]
        raise(cls) == [ok |-> FALSE, text |-> NoText, exc |-> cls]
        b == o.body
    IN  CASE o.kind \in {"transport", "status"} -> raise("HTTPError")
          [] o.kind = "not_json" -> raise("JSONDecodeError")
          [] OTHER ->
               IF b.isDict /\ "choices" \in b.keys
               THEN IF b.choices = <<>> THEN raise("IndexError") ELSE ok(b.choices[1])
               ELSE IF b.isDict /\ "message" \in b.keys THEN ok(b.message)
               ELSE IF b.isDict /\ "content" \in b.keys THEN ok(b.content)
               ELSE raise("RuntimeError")

\* a retry condition that leaves RuntimeError out
IsRetryableTransportOnly(cls) == cls = "HTTPError"

\* retry=retry_if_exception_type((httpx.HTTPError, RuntimeError))
IsRetryable(cls) == cls \in {"HTTPError", "RuntimeError"}

\* an off-by-one stop: one attempt too many
ShouldStopLate(attempt, max_attempts) == attempt > max_attempts

\* stop=stop_after_attempt(max_attempts): stop once attempt_number >= max
ShouldStop(attempt, max_attempts) == attempt >= max_attempts

RECURSIVE Pow2(_)
Pow2(n) == IF n <= 0 THEN 1 ELSE 2 * Pow2(n - 1)

\* an exponent that starts at 1 instead of 0
WaitExponentialFromTwo(base, attempt) == base * Pow2(attempt)

\* wait=wait_exponential(multiplier=base): after failed attempt n the wait is
\* base * 2^(n-1)
WaitExponential(base, attempt) == base * Pow2(attempt - 1)

\* ---------------------------------------------------------------------- state
VARIABLES
    disk,          \* models.yaml on disk: [version, mtime]
    edits,         \* how many times the source has been changed
    cfg,           \* Router: _config_mtime, _agent_configs, _system_prompts, _*_config
    sessions,      \* Router._sessions: (target, session_id) -> transcript
    queue,         \* SequentialTaskQueue._queue: caller ids, one per (coro_factory, future)
    started,       \* SequentialTaskQueue._started
    worker_task,   \* SequentialTaskQueue._worker_task: index into workers, 0 for None
    workers,       \* the asyncio tasks running _worker: [st, cur]
    startCalls,    \* calls of start so far
    stopCalled,    \* stop has been called
    cpc,           \* each /chat request: "idle", "waiting" (in submit), "done"
    req,           \* each request's body: target, session_id, message
    future,        \* each submit call's future
    http,          \* each request's HTTP status, 0 before it has one
    task,          \* each _execute coroutine: where it is suspended, and its locals
    hist,          \* history: what the latest send_message call has done so far
    seeded,        \* history: the prompt text loaded when each session was created
    enqueued,      \* history: callers in the order submit enqueued them
    startedOrder,  \* history: callers in the order a worker started their tasks
    lateSubmits,   \* history: callers whose submit ran after stop
    parses         \* history: reloads that ran to the end of ensure_latest_config

vars == <<disk, edits, cfg, sessions, queue, started, worker_task, workers, startCalls,
          stopCalled, cpc, req, future, http, task, hist, seeded, enqueued, startedOrder,
          lateSubmits, parses>>

diskVars == <<disk, edits>>
queueVars == <<queue, started, worker_task, workers, startCalls, stopCalled>>
callerVars == <<cpc, req, future, http>>
historyVars == <<hist, seeded, enqueued, startedOrder, lateSubmits, parses>>

NoAgent == [endpoint |-> <<>>, system_prompt_path |-> "", model |-> ""]
NoRequest == [target |-> "", session_id |-> "", message |-> NoText]
ChatResponse(reply, target, sid, c) ==
    [reply |-> reply, target |-> target, session_id |-> sid, task |-> c]
NoResponse == ChatResponse(NoText, "", "", 0)

NoFuture == [state |-> "none", result |-> NoResponse, exc |-> NoExc]
PendingFuture == [state |-> "pending", result |-> NoResponse, exc |-> NoExc]

IdleTask ==
    [pc |-> "none", inv |-> 0, attempt |-> 0, agent |-> NoAgent,
     timeout |-> TimeoutConfig(0, 0), max_attempts |-> 0, base |-> 0, response |-> NoText]

NoHist ==
    [caller |-> 0, checked |-> FALSE, agents |-> {}, existed |-> FALSE, lenBefore |-> 0,
     before |-> EmptyMap, invokes |-> <<>>, returned |-> FALSE, ret |-> NoText, exc |-> NoExc]

IdleWorker == [st |-> "get", cur |-> 0]

Init ==
    /\ disk = [version |-> 1, mtime |-> 1]
    /\ edits = 0
    /\ cfg = InitialConfig
    /\ sessions = EmptyMap
    /\ queue = <<>>
    /\ started = FALSE
    /\ worker_task = 0
    /\ workers = <<>>
    /\ startCalls = 0
    /\ stopCalled = FALSE
    /\ cpc = [c \in Callers |-> "idle"]
    /\ req = [c \in Callers |-> NoRequest]
    /\ future = [c \in Callers |-> NoFuture]
    /\ http = [c \in Callers |-> 0]
    /\ task = [c \in Callers |-> IdleTask]
    /\ hist = NoHist
    /\ seeded = EmptyMap
    /\ enqueued = <<>>
    /\ startedOrder = <<>>
    /\ lateSubmits = {}
    /\ parses = 0

\* ------------------------------------------------------- SequentialTaskQueue
\* a start that does not look at _started
StartGuardMissing(s) == FALSE

\* start: if self._started: return
StartGuard(s) == s

\* asyncio.Queue.put / get: first in, first out
QueuePut(q, c) == Append(q, c)
\* a get that takes the newest item
QueueGetNewest(q) == [item |-> q[Len(q)], rest |-> SubSeq(q, 1, Len(q) - 1)]

QueueGet(q) == [item |-> Head(q), rest |-> Tail(q)]

\* _worker: if not future.done(): future.set_exception(exc) / set_result(result),
\* on the future that was dequeued with the task
\* a worker that only logs the failure
SetExceptionSwallowed(fut, c, exc) == fut

SetException(fut, c, exc) ==
    IF fut[c].state = "pending"
    THEN [fut EXCEPT ![c] = [state |-> "exception", result |-> NoResponse, exc |-> exc]]
    ELSE fut
SetResult(fut, c, result) ==
    IF fut[c].state = "pending"
    THEN [fut EXCEPT ![c] = [state |-> "result", result |-> result, exc |-> NoExc]]
    ELSE fut

\* a worker without the `while True`: it ends after its first task
ReleaseWorkerExits(ws, c) ==
    [w \in DOMAIN ws |->
        IF ws[w].st = "run" /\ ws[w].cur = c THEN [st |-> "done", cur |-> 0] ELSE ws[w]]

\* the worker running task c goes back to `await self._queue.get()`
ReleaseWorker(ws, c) ==
    [w \in DOMAIN ws |-> IF ws[w].st = "run" /\ ws[w].cur = c THEN IdleWorker ELSE ws[w]]

\* ---------------------------------------------------------------------- Router
\* a send_message without the target check
TargetKnownAlways(agent_configs, target) == TRUE

\* send_message: if target not in self._agent_configs: raise ValueError
TargetKnown(agent_configs, target) == target \in DOMAIN agent_configs

\* a _get_session_history that refreshes the system turn of an existing
\* session from the current prompts
GetSessionHistoryReseed(sess, prompts, target, sid) ==
    LET key == <<target, sid>>
    IN  IF target \notin DOMAIN prompts THEN [sessions |-> sess, exc |-> "KeyError"]
        ELSE IF key \in DOMAIN sess
        THEN [sessions |-> [sess EXCEPT ![key][1] = Turn("system", prompts[target])],
              exc |-> "None"]
        ELSE [sessions |-> Put(sess, key, <<Turn("system", prompts[target])>>),
              exc |-> "None"]

\* a _get_session_history that replaces the store when it creates a session:
\* self._sessions = {key: [...]}
GetSessionHistoryReplacing(sess, prompts, target, sid) ==
    LET key == <<target, sid>>
    IN  IF key \in DOMAIN sess THEN [sessions |-> sess, exc |-> "None"]
        ELSE IF target \notin DOMAIN prompts THEN [sessions |-> sess, exc |-> "KeyError"]
        ELSE [sessions |-> Put(EmptyMap, key, <<Turn("system", prompts[target])>>),
              exc |-> "None"]

\* _get_session_history: seed a new key with the agent's system prompt
GetSessionHistory(sess, prompts, target, sid) ==
    LET key == <<target, sid>>
    IN  IF key \in DOMAIN sess THEN [sessions |-> sess, exc |-> "None"]
        ELSE IF target \notin DOMAIN prompts THEN [sessions |-> sess, exc |-> "KeyError"]
        ELSE [sessions |-> Put(sess, key, <<Turn("system", prompts[target])>>),
              exc |-> "None"]

\* a send_message that forgets the user turn
AppendUserDropped(history, message) == history

\* history.append({"role": "user", "content": message})
AppendUser(history, message) == Append(history, Turn("user", message))

\* a correction written as a loop: `while not response.strip()`
NeedsCorrectionAgain(response, inv) == Strip(response) = NoText

\* if not response.strip(): ...   (once, after the first invocation)
NeedsCorrection(response, inv) == inv = 1 /\ Strip(response) = NoText

\* a corrective turn sent in a copy of the transcript and not kept:
\* messages = history + [corrective]
AppendCorrectiveNotKept(history) == history

\* history.append({"role": "system", "content": "The previous reply was empty ..."})
AppendCorrective(history) == Append(history, Turn("system", CorrectiveText))

\* an assistant turn written over the last turn: history[-1] = ...
AppendAssistantOverwrite(history, response) ==
    [history EXCEPT ![Len(history)] = Turn("assistant", response)]

\* history.append({"role": "assistant", "content": response}); return response
AppendAssistant(history, response) == Append(history, Turn("assistant", response))
Returned(response) == response

\* _invoke_model up to the first POST: the agent, the timeouts and the retry
\* policy are read from the Router's fields when the invocation begins.
BeginInvoke(R, target, inv) ==
    IF target \notin DOMAIN R.agent_configs THEN [ok |-> FALSE, t |-> IdleTask]
    ELSE [ok |-> TRUE,
          t |-> [pc |-> "post", inv |-> inv, attempt |-> 1,
                 agent |-> R.agent_configs[target],
                 timeout |-> R.timeout_config,
                 max_attempts |-> R.retry_config.max_attempts,
                 base |-> R.retry_config.base_backoff_sec,
                 response |-> NoText]]

\* history of one _invoke_model call: the transcript it sends, the agent and
\* the policies it read, its attempts so far, the exception class of each
\* failed attempt, the waits between attempts, the latest POST outcome
NewInvoke(transcript, t) ==
    [len |-> Len(transcript), last |-> transcript[Len(transcript)], attempts |-> 1,
     max_attempts |-> t.max_attempts, base |-> t.base, timeout |-> t.timeout,
     agent |-> t.agent, model |-> t.agent.model, waits |-> <<>>,
     failed |-> <<>>, got |-> NoOutcome,
     returned |-> FALSE, reply |-> NoText, exc |-> NoExc]

\* a coroutine that has ended keeps no locals; the value _execute returned is
\* kept for the comparison with what the caller received
EndedTask(t, pc) ==
    [IdleTask EXCEPT !.pc = pc, !.response = IF pc = "finished" THEN t.response ELSE NoText]

\* one more reload has run to its end
Parsed(n, e) == IF e.what = "reloaded" THEN n + 1 ELSE n

\* --------------------------------------------------------------------- actions
\* The source on disk is edited, replaced or removed.
EditConfig(v) ==
    /\ edits < MaxEdits
    /\ v # disk.version
    /\ disk' = [version |-> v, mtime |-> disk.mtime + 1]
    /\ edits' = edits + 1
    /\ UNCHANGED <<cfg, sessions, queueVars, callerVars, task, historyVars>>

\* on_startup: ensure_latest_config, then queue.start
OnStartup ==
    /\ startCalls < MaxStartCalls
    /\ startCalls' = startCalls + 1
    /\ LET e == EnsureLatestConfig(cfg, disk)
       IN  /\ cfg' = e.R
           /\ parses' = Parsed(parses, e)
           /\ IF e.exc # "None" \/ StartGuard(started)
              THEN UNCHANGED <<started, workers, worker_task>>
              ELSE /\ started' = TRUE
                   /\ workers' = Append(workers, IdleWorker)
                   /\ worker_task' = Len(workers) + 1
    /\ UNCHANGED <<diskVars, sessions, queue, stopCalled, callerVars, task, hist, seeded,
                   enqueued, startedOrder, lateSubmits>>

\* on_shutdown: queue.stop cancels the worker task.  CancelledError is thrown
\* into the worker at its await; when that is `await coro_factory()` it
\* unwinds the task in flight first, is not caught by `except Exception`, and
\* only `finally: task_done()` runs: the dequeued future is left as it is.
Stop ==
    /\ stopCalled' = TRUE
    /\ IF worker_task # 0 /\ workers[worker_task].st # "done"
       THEN LET w == workers[worker_task]
            IN  /\ workers' = [workers EXCEPT ![worker_task] = [st |-> "done", cur |-> 0]]
                /\ task' = IF w.st = "run"
                           THEN [task EXCEPT ![w.cur] = EndedTask(@, "cancelled")]
                           ELSE task
       ELSE UNCHANGED <<workers, task>>
    /\ UNCHANGED <<diskVars, cfg, sessions, queue, started, worker_task, startCalls,
                   callerVars, historyVars>>

\* POST /chat: verify_token (ensure_latest_config, then the bearer token), then
\* chat up to `await future` inside submit.  Requests are numbered in the
\* order they arrive.
Chat(c, target, sid, message, auth) ==
    /\ cpc[c] = "idle"
    /\ \A d \in Callers : d < c => cpc[d] # "idle"
    /\ LET e == EnsureLatestConfig(cfg, disk)
           sec == e.R.security_config
           status == IF e.exc # "None" THEN 500
                     ELSE IF ~sec.enabled THEN 0
                     ELSE IF sec.token_env = "" \/ auth = "env_undefined" THEN 500
                     ELSE IF auth = "bad_header" THEN 401
                     ELSE 0
       IN  /\ cfg' = e.R
           /\ parses' = Parsed(parses, e)
           /\ req' = [req EXCEPT ![c] =
                         [target |-> target, session_id |-> sid, message |-> message]]
           /\ IF status # 0
              THEN /\ cpc' = [cpc EXCEPT ![c] = "done"]
                   /\ http' = [http EXCEPT ![c] = status]
                   /\ UNCHANGED <<future, queue, enqueued, lateSubmits>>
              ELSE /\ cpc' = [cpc EXCEPT ![c] = "waiting"]
                   /\ future' = [future EXCEPT ![c] = PendingFuture]
                   /\ queue' = QueuePut(queue, c)
                   /\ enqueued' = Append(enqueued, c)
                   /\ lateSubmits' = IF stopCalled THEN lateSubmits \cup {c} ELSE lateSubmits
                   /\ UNCHANGED http
    /\ UNCHANGED <<diskVars, sessions, started, worker_task, workers, startCalls,
                   stopCalled, task, hist, seeded, startedOrder>>

\* _worker: `await self._queue.get()` returns an item and `await coro_factory()`
\* runs _execute -> send_message up to the first POST of _invoke_model
\* (ensure_latest_config takes the uncontended lock without suspending).
StartTask(w) ==
    /\ w \in DOMAIN workers
    /\ workers[w].st = "get"
    /\ queue # <<>>
    /\ LET got == QueueGet(queue)
           c == got.item
           r == req[c]
           key == <<r.target, r.session_id>>
           e == EnsureLatestConfig(cfg, disk)
           known == TargetKnown(e.R.agent_configs, r.target)
           g == GetSessionHistory(sessions, e.R.system_prompts, r.target, r.session_id)
           withUser == [g.sessions EXCEPT ![key] = AppendUser(@, r.message)]
           b == BeginInvoke(e.R, r.target, 1)
           appended == e.exc = "None" /\ known /\ g.exc = "None"
           failure == IF e.exc # "None" THEN Exc(e.exc, e.what, c, 0)
                      ELSE IF ~known THEN Exc("ValueError", "UnknownAgent", c, 0)
                      ELSE IF g.exc # "None" THEN Exc(g.exc, "system_prompts", c, 0)
                      ELSE IF ~b.ok THEN Exc("KeyError", "agent_configs", c, 0)
                      ELSE NoExc
       IN  /\ queue' = got.rest
           /\ startedOrder' = Append(startedOrder, c)
           /\ cfg' = e.R
           /\ parses' = Parsed(parses, e)
           /\ sessions' = IF appended THEN withUser ELSE sessions
           /\ seeded' = IF appended /\ key \notin DOMAIN sessions
                        THEN Put(seeded, key, e.R.system_prompts[r.target])
                        ELSE seeded
           /\ hist' =
                         [caller |-> c,
                          checked |-> e.exc = "None",
                          agents |-> DOMAIN e.R.agent_configs,
                          existed |-> key \in DOMAIN sessions,
                          lenBefore |-> IF key \in DOMAIN sessions
                                        THEN Len(sessions[key]) ELSE 0,
                          before |-> sessions,
                          invokes |-> IF failure = NoExc
                                      THEN <<NewInvoke(withUser[key], b.t)>> ELSE <<>>,
                          returned |-> FALSE,
                          ret |-> NoText,
                          exc |-> failure]
           /\ IF failure = NoExc
              THEN /\ task' = [task EXCEPT ![c] = b.t]
                   /\ workers' = [workers EXCEPT ![w] = [st |-> "run", cur |-> c]]
                   /\ UNCHANGED future
              ELSE /\ task' = [task EXCEPT ![c] = EndedTask(@, "failed")]
                   /\ future' = SetException(future, c, failure)
                   /\ UNCHANGED workers
    /\ UNCHANGED <<diskVars, started, worker_task, startCalls, stopCalled, cpc, req,
                   http, enqueued, lateSubmits>>

\* The POST of the current attempt comes back with outcome o.  _send_request
\* parses it; tenacity decides between returning, waiting and re-raising;
\* send_message goes on to the corrective invocation or to the assistant turn.
AttemptResult(c, o) ==
    /\ task[c].pc = "post"
    /\ LET t == task[c]
           r == req[c]
           key == <<r.target, r.session_id>>
           n == Len(hist.invokes)
           s == SendRequest(o)
           retry == ~s.ok /\ IsRetryable(s.exc) /\ ~ShouldStop(t.attempt, t.max_attempts)
           correct == s.ok /\ NeedsCorrection(s.text, t.inv)
           withCorrective == [sessions EXCEPT ![key] = AppendCorrective(@)]
           b == BeginInvoke(cfg, r.target, t.inv + 1)
           failure == IF ~s.ok THEN Exc(s.exc, "delivery", c, t.attempt)
                      ELSE Exc("KeyError", "agent_configs", c, 0)
           h0 == [hist EXCEPT !.invokes[n].got = o,
                              !.invokes[n].failed = IF s.ok THEN @ ELSE Append(@, s.exc)]
           h1 == [h0 EXCEPT !.invokes[n].returned = s.ok, !.invokes[n].reply = s.text]
           Record(h) == hist' = IF hist.caller = c THEN h ELSE hist
       IN  IF retry THEN
               /\ task' = [task EXCEPT ![c].pc = "sleep"]
               /\ Record([h0 EXCEPT !.invokes[n].waits =
                             Append(@, WaitExponential(t.base, t.attempt))])
               /\ UNCHANGED <<sessions, future, workers>>
           ELSE IF ~s.ok THEN
               /\ task' = [task EXCEPT ![c] = EndedTask(@, "failed")]
               /\ Record([h0 EXCEPT !.invokes[n].exc = failure, !.exc = failure])
               /\ future' = SetException(future, c, failure)
               /\ workers' = ReleaseWorker(workers, c)
               /\ UNCHANGED sessions
           ELSE IF correct /\ b.ok THEN
               /\ sessions' = withCorrective
               /\ task' = [task EXCEPT ![c] = b.t]
               /\ Record([h1 EXCEPT !.invokes =
                             Append(@, NewInvoke(withCorrective[key], b.t))])
               /\ UNCHANGED <<future, workers>>
           ELSE IF correct THEN
               /\ sessions' = withCorrective
               /\ task' = [task EXCEPT ![c] = EndedTask(@, "failed")]
               /\ Record([h1 EXCEPT !.exc = failure])
               /\ future' = SetException(future, c, failure)
               /\ workers' = ReleaseWorker(workers, c)
           ELSE
               /\ sessions' = [sessions EXCEPT ![key] = AppendAssistant(@, s.text)]
               /\ task' = [task EXCEPT ![c].pc = "log", ![c].response = Returned(s.text)]
               /\ Record([h1 EXCEPT !.returned = TRUE, !.ret = Returned(s.text)])
               /\ UNCHANGED <<future, workers>>
    /\ UNCHANGED <<diskVars, cfg, queue, started, worker_task, startCalls, stopCalled,
                   cpc, req, http, seeded, enqueued, startedOrder, lateSubmits, parses>>

\* The backoff sleep ends and the next attempt's POST is sent.
SleepDone(c) ==
    /\ task[c].pc = "sleep"
    /\ task' = [task EXCEPT ![c].pc = "post", ![c].attempt = @ + 1]
    /\ hist' = IF hist.caller = c
               THEN [hist EXCEPT !.invokes[Len(hist.invokes)].attempts = @ + 1]
               ELSE hist
    /\ UNCHANGED <<diskVars, cfg, sessions, queueVars, callerVars, seeded, enqueued,
                   startedOrder, lateSubmits, parses>>

\* conversation_logger.append comes back (written, or an OSError from the
\* file system); _execute returns the ChatResponse and the worker resolves the
\* future.
LogDone(c, written) ==
    /\ task[c].pc = "log"
    /\ LET r == req[c]
       IN  IF written
           THEN /\ task' = [task EXCEPT ![c] = EndedTask(@, "finished")]
                /\ future' = SetResult(future, c,
                                ChatResponse(task[c].response, r.target, r.session_id, c))
           ELSE /\ task' = [task EXCEPT ![c] = EndedTask(@, "failed")]
                /\ future' = SetException(future, c, Exc("OSError", "log", c, 0))
    /\ workers' = ReleaseWorker(workers, c)
    /\ UNCHANGED <<diskVars, cfg, sessions, queue, started, worker_task, startCalls,
                   stopCalled, cpc, req, http, historyVars>>

\* chat resumes from `await future`: the response, or HTTP 400 for a
\* ValueError, or (any other exception) HTTP 500.
ChatReturn(c) ==
    /\ cpc[c] = "waiting"
    /\ future[c].state \in {"result", "exception"}
    /\ cpc' = [cpc EXCEPT ![c] = "done"]
    /\ http' = [http EXCEPT ![c] =
                  IF future[c].state = "result" THEN 200
                  ELSE IF IsInstance(future[c].exc, "ValueError") THEN 400
                  ELSE 500]
    /\ UNCHANGED <<diskVars, cfg, sessions, queueVars, req, future, task, historyVars>>

\* The state once on_startup has run on the initial source: the configuration
\* is loaded and the worker waits on the empty queue.
InitStarted ==
    /\ disk = [version |-> 1, mtime |-> 1]
    /\ edits = 0
    /\ cfg = EnsureLatestConfig(InitialConfig, [version |-> 1, mtime |-> 1]).R
    /\ sessions = EmptyMap
    /\ queue = <<>>
    /\ started = TRUE
    /\ worker_task = 1
    /\ workers = <<IdleWorker>>
    /\ startCalls = 1
    /\ stopCalled = FALSE
    /\ cpc = [c \in Callers |-> "idle"]
    /\ req = [c \in Callers |-> NoRequest]
    /\ future = [c \in Callers |-> NoFuture]
    /\ http = [c \in Callers |-> 0]
    /\ task = [c \in Callers |-> IdleTask]
    /\ hist = NoHist
    /\ seeded = EmptyMap
    /\ enqueued = <<>>
    /\ startedOrder = <<>>
    /\ lateSubmits = {}
    /\ parses = 1

RouterVersions == {1, 2, 3, 4}
RouterOutcomes ==
    {o \in Outcomes : o.kind = "transport"}
    \cup {[kind |-> "body", body |-> Body(TRUE, {"choices"}, <<r>>, NoText, NoText)] :
             r \in Replies}

\* The router under configuration changes: requests through a started queue,
\* every kind of endpoint response, the source edited, replaced and removed.
Next ==
    \/ \E v \in RouterVersions : EditConfig(v)
    \/ \E c \in 1..RouterCallers, target \in Targets, sid \in SessionIds :
          Chat(c, target, sid, MessageOf(c), "ok")
    \/ \E w \in 1..MaxStartCalls : StartTask(w)
    \/ \E c \in Callers, o \in RouterOutcomes : AttemptResult(c, o)
    \/ \E c \in Callers : SleepDone(c)
    \/ \E c \in Callers : LogDone(c, TRUE)
    \/ \E c \in Callers : ChatReturn(c)

Spec == InitStarted /\ [][Next]_vars

\* The queue's life cycle: start (possibly repeated), stop, and requests that
\* arrive before, between and after them, over an unchanging source.
QueueOutcomes ==
    {o \in Outcomes : o.kind = "transport"}
    \cup {[kind |-> "body", body |-> Body(TRUE, {"choices"}, <<<<"h", "i", "\n">>>>, NoText, NoText)]}

NextQueue ==
    \/ OnStartup
    \/ Stop
    \/ \E c \in Callers : Chat(c, "pm", "s1", MessageOf(c), "ok")
    \/ \E w \in 1..MaxStartCalls : StartTask(w)
    \/ \E c \in Callers, o \in QueueOutcomes : AttemptResult(c, o)
    \/ \E c \in Callers : SleepDone(c)
    \/ \E c \in Callers, written \in BOOLEAN : LogDone(c, written)
    \/ \E c \in Callers : ChatReturn(c)

SpecQueue == Init /\ [][NextQueue]_vars

\* What the event loop, the endpoint's timeouts and the thread pool guarantee:
\* a ready worker runs, a POST, a sleep and a log write come back, and a
\* caller whose future is resolved resumes.
Progress ==
    \/ \E w \in 1..MaxStartCalls : StartTask(w)
    \/ \E c \in Callers, o \in Outcomes : AttemptResult(c, o)
    \/ \E c \in Callers : SleepDone(c)
    \/ \E c \in Callers, written \in BOOLEAN : LogDone(c, written)
    \/ \E c \in Callers : ChatReturn(c)

\* One delivery at a time over each retry policy: the source loaded at
\* startup is any version that loads, and the endpoint answers in every way.
LoadableVersions == {1, 2, 4}

InitDelivery ==
    /\ \E v \in LoadableVersions :
          /\ disk = [version |-> v, mtime |-> 1]
          /\ cfg = EnsureLatestConfig(InitialConfig, [version |-> v, mtime |-> 1]).R
    /\ edits = 0
    /\ sessions = EmptyMap
    /\ queue = <<>>
    /\ started = TRUE
    /\ worker_task = 1
    /\ workers = <<IdleWorker>>
    /\ startCalls = 1
    /\ stopCalled = FALSE
    /\ cpc = [c \in Callers |-> "idle"]
    /\ req = [c \in Callers |-> NoRequest]
    /\ future = [c \in Callers |-> NoFuture]
    /\ http = [c \in Callers |-> 0]
    /\ task = [c \in Callers |-> IdleTask]
    /\ hist = NoHist
    /\ seeded = EmptyMap
    /\ enqueued = <<>>
    /\ startedOrder = <<>>
    /\ lateSubmits = {}
    /\ parses = 1

NextDelivery ==
    \/ \E auth \in AuthCases : Chat(1, "pm", "s1", MessageOf(1), auth)
    \/ StartTask(1)
    \/ \E o \in Outcomes : AttemptResult(1, o)
    \/ SleepDone(1)
    \/ \E written \in BOOLEAN : LogDone(1, written)
    \/ ChatReturn(1)

SpecDelivery == InitDelivery /\ [][NextDelivery]_vars

\* The configuration's life cycle: startup on a source that may already have
\* been replaced or removed, then requests while the source is replaced by
\* any version (loadable or not) or removed.
ConfigOutcomes ==
    {[kind |-> "body", body |-> Body(TRUE, {"content"}, <<>>, NoText, r)] :
        r \in {NoText, <<"h", "i", "\n">>}}

NextConfig ==
    \/ \E v \in Versions \cup {NoFile} : EditConfig(v)
    \/ OnStartup
    \/ \E c \in 1..RouterCallers : Chat(c, "pm", "s1", MessageOf(c), "ok")
    \/ \E w \in 1..MaxStartCalls : StartTask(w)
    \/ \E c \in Callers, o \in ConfigOutcomes : AttemptResult(c, o)
    \/ \E c \in Callers : LogDone(c, TRUE)
    \/ \E c \in Callers : ChatReturn(c)

SpecConfig == Init /\ [][NextConfig]_vars

\* The queue without stop, under the scheduling asyncio gives: requests
\* arrive before and after start; a ready worker is run, every POST, sleep
\* and log write comes back, and a caller whose future is resolved resumes.
NextLive ==
    \/ OnStartup
    \/ \E c \in Callers : Chat(c, "pm", "s1", MessageOf(c), "ok")
    \/ \E w \in 1..MaxStartCalls : StartTask(w)
    \/ \E c \in Callers, o \in QueueOutcomes : AttemptResult(c, o)
    \/ \E c \in Callers : SleepDone(c)
    \/ \E c \in Callers, written \in BOOLEAN : LogDone(c, written)
    \/ \E c \in Callers : ChatReturn(c)

FairScheduling ==
    /\ WF_vars(\E w \in 1..MaxStartCalls : StartTask(w))
    /\ \A c \in Callers :
          /\ WF_vars(\E o \in QueueOutcomes : AttemptResult(c, o))
          /\ WF_vars(SleepDone(c))
          /\ WF_vars(\E written \in BOOLEAN : LogDone(c, written))
          /\ WF_vars(ChatReturn(c))

SpecLive == Init /\ [][NextLive]_vars /\ FairScheduling

\* ---------------------------------------------------------------- properties
Executing == {c \in Callers : task[c].pc \in {"post", "sleep", "log"}}
InSendMessage == {c \in Callers : task[c].pc \in {"post", "sleep"}}
Queued(c) == \E i \in DOMAIN queue : queue[i] = c
IsPrefix(a, b) == Len(a) <= Len(b) /\ a = SubSeq(b, 1, Len(a))
WorkerCancelled == worker_task # 0 /\ workers[worker_task].st = "done"

\* C1: at most one submitted task is executing at any time, however many
\* submit callers are waiting, so at most one send_message started through
\* /chat is in progress and every running worker has its own task.
C1_AtMostOneTaskExecuting ==
    /\ Cardinality(Executing) <= 1
    /\ Cardinality(InSendMessage) <= 1
    /\ Cardinality({w \in DOMAIN workers : workers[w].st = "run"}) <= 1
    /\ \A w \in DOMAIN workers : workers[w].st = "run" => workers[w].cur \in Executing

\* a task is in flight while two other callers wait in submit behind it
C1_Witness ==
    /\ Cardinality(InSendMessage) = 1
    /\ Len(queue) >= 2
    /\ Cardinality({c \in Callers : cpc[c] = "waiting"}) >= 3

\* C2: the worker starts tasks in exactly the order submit enqueued them,
\* whatever the duration or the outcome of the earlier tasks.
C2_StartedInSubmissionOrder ==
    /\ IsPrefix(startedOrder, enqueued)
    /\ enqueued = startedOrder \o queue

\* three tasks were started, the first failed and the second needed a retry
C2_Witness ==
    /\ Len(startedOrder) >= 3
    /\ future[startedOrder[1]].state = "exception"
    /\ future[startedOrder[2]].state = "result"
    /\ task[startedOrder[3]].pc = "post"

\* C3: a submit call gets the result or the failure of its own task and of no
\* other; a task's failure reaches its own caller's future, and the worker
\* stays alive for the tasks behind it (only stop ends the worker).
C3_OwnOutcomeOnly ==
    /\ \A c \in Callers :
          /\ future[c].state = "result" =>
                /\ future[c].result.task = c
                /\ task[c].pc = "finished"
                /\ future[c].result.reply = task[c].response
          /\ future[c].state = "exception" =>
                /\ future[c].exc.task = c
                /\ task[c].pc = "failed"
          /\ task[c].pc = "failed" => future[c].state = "exception"
          /\ task[c].pc = "finished" => future[c].state = "result"
          /\ cpc[c] = "done" /\ http[c] = 200 => future[c].state = "result"
          /\ cpc[c] = "done" /\ future[c].state = "exception" => http[c] \in {400, 500}
    /\ \A w \in DOMAIN workers : workers[w].st = "done" => stopCalled

\* a task failed, its caller got the failure, and a task queued behind it was
\* executed and returned its result to its own caller
C3_Witness ==
    \E c, d \in Callers :
        /\ c < d
        /\ future[c].state = "exception" /\ cpc[c] = "done"
        /\ future[d].state = "result" /\ cpc[d] = "done" /\ http[d] = 200
        /\ ~stopCalled

\* C4: once stop has cancelled the worker with a task in flight and nothing
\* more can run, the caller that submitted that task has come out of submit
\* with a cancellation failure.
C4_CancelledCallerObservesFailure ==
    \A c \in Callers :
        (task[c].pc = "cancelled" /\ ~ENABLED Progress) =>
            /\ cpc[c] = "done"
            /\ future[c].state = "exception"
            /\ future[c].exc.type = "CancelledError"

\* C5: a submit made after stop has cancelled the worker adds nothing to the
\* queue and does not leave its caller waiting.
C5_NoWorkAcceptedAfterStop ==
    \A c \in lateSubmits : WorkerCancelled => ~Queued(c) /\ cpc[c] # "waiting"

\* The latest send_message call: its request, its session key, and the
\* transcript it started from (the seeded system turn, for a session it created).
HReq == req[hist.caller]
HKey == <<HReq.target, HReq.session_id>>
HBase == IF hist.existed THEN hist.before[HKey] ELSE <<Turn("system", seeded[HKey])>>
UserTurn == Turn("user", HReq.message)
CorrectiveTurn == Turn("system", CorrectiveText)
IsBlank(text) == Strip(text) = NoText

\* C6: the first turn of every session is the system turn holding the target
\* agent's prompt as it was loaded when the session was created, whatever
\* send_message calls and reloads came later.
C6_FirstTurnIsSeedPrompt ==
    \A key \in DOMAIN sessions :
        /\ key \in DOMAIN seeded
        /\ Len(sessions[key]) >= 1
        /\ sessions[key][1] = Turn("system", seeded[key])

\* a second call on a session has returned after a reload changed the prompt
\* of the session's agent
C6_Witness ==
    \E key \in DOMAIN sessions :
        /\ key[1] \in DOMAIN cfg.system_prompts
        /\ cfg.system_prompts[key[1]] # seeded[key]
        /\ hist.caller # 0 /\ HKey = key /\ hist.existed /\ hist.returned
        /\ Len(sessions[key]) >= 5

\* C7: a call whose first delivery reply is not blank makes exactly one
\* invocation, on a transcript ending with the user turn, returns that reply,
\* and leaves the transcript extended by the user turn and the assistant turn.
C7_SingleDeliveryOnNonBlankReply ==
    (/\ hist.caller # 0
     /\ hist.invokes # <<>>
     /\ hist.invokes[1].returned
     /\ ~IsBlank(hist.invokes[1].reply)) =>
        /\ Len(hist.invokes) = 1
        /\ hist.invokes[1].last = UserTurn
        /\ hist.invokes[1].len = Len(HBase) + 1
        /\ hist.returned
        /\ hist.ret = hist.invokes[1].reply
        /\ task[hist.caller].response = hist.invokes[1].reply
        /\ sessions[HKey] = HBase \o <<UserTurn, Turn("assistant", hist.invokes[1].reply)>>
        /\ ~hist.existed => Len(sessions[HKey]) = 3

\* a call on an existing session returned a non-blank reply from its first
\* invocation, which needed a retry
C7_Witness ==
    /\ hist.caller # 0
    /\ hist.returned
    /\ Len(hist.invokes) = 1
    /\ hist.invokes[1].attempts = 2
    /\ hist.existed
    /\ Len(sessions[HKey]) = Len(hist.before[HKey]) + 2

\* C8: a call makes a second invocation only after a blank first reply, with
\* exactly one corrective system turn appended after the user turn, never a
\* third; what the second invocation returns becomes the assistant turn and
\* the result, blank or not.
C8_CorrectionAtMostOnce ==
    hist.caller # 0 =>
        /\ Len(hist.invokes) <= 2
        /\ Len(hist.invokes) = 2 =>
              /\ hist.invokes[1].returned
              /\ IsBlank(hist.invokes[1].reply)
              /\ hist.invokes[1].last = UserTurn
              /\ hist.invokes[2].last = CorrectiveTurn
              /\ hist.invokes[2].len = hist.invokes[1].len + 1
        /\ (Len(hist.invokes) = 2 /\ hist.invokes[2].returned) =>
              /\ hist.returned
              /\ hist.ret = hist.invokes[2].reply
              /\ sessions[HKey] =
                    HBase \o <<UserTurn, CorrectiveTurn, Turn("assistant", hist.ret)>>
        /\ (Len(hist.invokes) = 1 /\ hist.returned) => ~IsBlank(hist.invokes[1].reply)

\* the first reply was whitespace only, the second invocation returned the
\* empty text, and the call returned it
C8_Witness ==
    /\ hist.caller # 0
    /\ Len(hist.invokes) = 2
    /\ hist.invokes[1].reply = <<" ", "\n">>
    /\ hist.returned
    /\ hist.ret = NoText

\* C9: a call whose target is no agent of the configuration that
\* ensure_latest_config leaves in place fails without any invocation and
\* leaves the session store as it was (no entry created, no transcript
\* changed); when ensure_latest_config returned, the failure is the
\* unknown-agent ValueError.
C9_UnknownTargetRejected ==
    (hist.caller # 0 /\ HReq.target \notin hist.agents) =>
        /\ hist.invokes = <<>>
        /\ sessions = hist.before
        /\ task[hist.caller].pc = "failed"
        /\ future[hist.caller].state = "exception"
        /\ future[hist.caller].exc = hist.exc
        /\ hist.checked => hist.exc = Exc("ValueError", "UnknownAgent", hist.caller, 0)

\* an unknown target was rejected while other sessions exist and its own key
\* has no entry
C9_Witness ==
    /\ hist.caller # 0 /\ hist.checked /\ HReq.target \notin hist.agents
    /\ sessions # EmptyMap
    /\ HKey \notin DOMAIN sessions
    /\ cpc[hist.caller] = "done" /\ http[hist.caller] = 400

\* C10: an invocation with max_attempts = k >= 1 never makes more than k
\* attempts; when it ends in a retryable failure it has made exactly k attempts
\* and the failure surfaced to the caller is the k-th attempt's; when an
\* attempt succeeds no further attempt is made and its reply is returned.
C10_ExactlyMaxAttempts ==
    \A i \in DOMAIN hist.invokes :
        LET iv == hist.invokes[i]
            k == iv.max_attempts
            c == hist.caller
        IN  /\ k >= 1
            /\ iv.attempts >= 1 /\ iv.attempts <= k
            /\ Len(iv.waits) \in {iv.attempts - 1, iv.attempts}
            /\ (iv.exc # NoExc /\ IsRetryable(iv.exc.type)) =>
                  /\ iv.attempts = k
                  /\ iv.exc.attempt = k
                  /\ hist.exc = iv.exc
                  /\ future[c].state = "exception" /\ future[c].exc = iv.exc
            /\ iv.returned =>
                  /\ iv.exc = NoExc
                  /\ Len(iv.waits) = iv.attempts - 1
                  /\ ~(task[c].inv = i /\ task[c].pc \in {"post", "sleep"})
                  /\ (i = Len(hist.invokes) /\ hist.returned) => hist.ret = iv.reply

\* with max_attempts = 3 every attempt failed (a transport failure, then
\* unrecognized bodies) and the third failure reached the caller
C10_Witness ==
    /\ hist.caller # 0
    /\ hist.invokes # <<>>
    /\ hist.invokes[1].max_attempts = 3
    /\ hist.invokes[1].attempts = 3
    /\ hist.invokes[1].exc.type = "RuntimeError"
    /\ hist.invokes[1].exc.attempt = 3
    /\ cpc[hist.caller] = "done" /\ http[hist.caller] = 500

\* an invocation with max_attempts = 3 succeeded at its second attempt
C10_WitnessSuccess ==
    /\ hist.caller # 0
    /\ hist.invokes # <<>>
    /\ hist.invokes[1].max_attempts = 3
    /\ hist.invokes[1].attempts = 2
    /\ hist.invokes[1].returned

\* The exception classes the claims call transport/HTTP-status failure and
\* unrecognized-response-shape failure.
RetriedClasses == {"HTTPError", "RuntimeError"}
Sleeping(i) == i = Len(hist.invokes) /\ task[hist.caller].pc = "sleep"

\* C11: in an invocation, a transport/HTTP-status failure and an
\* unrecognized-shape failure of an attempt before the max_attempts-th are each
\* followed by one wait and another attempt; a failure of any other class
\* (no first choice, undecodable body) is the invocation's last attempt and is
\* the failure the call ends with.
C11_OnlyTransportAndShapeRetried ==
    \A i \in DOMAIN hist.invokes :
        LET iv == hist.invokes[i]
            nf == Len(iv.failed)
            c == hist.caller
        IN  /\ \A j \in 1..nf : j < nf => iv.failed[j] \in RetriedClasses
            /\ Len(iv.waits) =
                  Cardinality({j \in 1..nf : iv.failed[j] \in RetriedClasses
                                              /\ j < iv.max_attempts})
            /\ (nf > 0 /\ iv.failed[nf] \notin RetriedClasses) =>
                  /\ iv.attempts = nf
                  /\ iv.exc.type = iv.failed[nf]
                  /\ iv.exc.attempt = nf
                  /\ task[c].pc = "failed"
                  /\ future[c].state = "exception" /\ future[c].exc = iv.exc

\* with max_attempts = 3 an unrecognized body was retried and the second
\* attempt's body, with an empty `choices`, ended the call
C11_Witness ==
    /\ hist.caller # 0
    /\ hist.invokes # <<>>
    /\ hist.invokes[1].max_attempts = 3
    /\ hist.invokes[1].failed = <<"RuntimeError", "IndexError">>
    /\ hist.invokes[1].waits = <<1>>
    /\ cpc[hist.caller] = "done" /\ http[hist.caller] = 500

\* C12: attempt 1 is sent without a wait and attempt n >= 2 is sent after a
\* wait of base * 2^(n-2) seconds; with max_attempts = 2, base = 2 and both
\* attempts failing there is exactly one wait, of 2 seconds.
C12_BackoffSchedule ==
    \A i \in DOMAIN hist.invokes :
        LET iv == hist.invokes[i]
        IN  /\ Len(iv.waits) = IF Sleeping(i) THEN iv.attempts ELSE iv.attempts - 1
            /\ \A n \in 2..(Len(iv.waits) + 1) : iv.waits[n - 1] = iv.base * 2^(n - 2)
            /\ (iv.max_attempts = 2 /\ iv.base = 2 /\ Len(iv.failed) = 2) =>
                  iv.waits = <<2>>

\* max_attempts = 2, base = 2, both attempts failed in transport and the
\* caller got the failure
C12_Witness ==
    /\ hist.caller # 0
    /\ hist.invokes # <<>>
    /\ hist.invokes[1].max_attempts = 2 /\ hist.invokes[1].base = 2
    /\ hist.invokes[1].failed = <<"HTTPError", "HTTPError">>
    /\ hist.invokes[1].waits = <<2>>
    /\ cpc[hist.caller] = "done" /\ http[hist.caller] = 500

\* with base = 1 the waits before attempts 2 and 3 were 1 and 2 seconds
C12_WitnessThirdAttempt ==
    /\ hist.caller # 0
    /\ hist.invokes # <<>>
    /\ hist.invokes[1].attempts = 3
    /\ hist.invokes[1].waits = <<1, 2>>

\* C13: the reply of a decoded body is the first choice's message content
\* when the body has `choices`, else message.content when it has `message`,
\* else `content` when it has it; a body with none of the three, or that is
\* not an object, fails the attempt with the unrecognized-shape RuntimeError.
C13_ShapePriority ==
    \A i \in DOMAIN hist.invokes :
        LET iv == hist.invokes[i]
            b == iv.got.body
            has(k) == b.isDict /\ k \in b.keys
            yields(text) == iv.returned /\ iv.reply = text
        IN  iv.got.kind = "body" =>
              /\ (has("choices") /\ b.choices # <<>>) => yields(b.choices[1])
              /\ (~has("choices") /\ has("message")) => yields(b.message)
              /\ (~has("choices") /\ ~has("message") /\ has("content")) => yields(b.content)
              /\ (~has("choices") /\ ~has("message") /\ ~has("content")) =>
                    /\ ~iv.returned
                    /\ iv.failed # <<>>
                    /\ iv.failed[Len(iv.failed)] = "RuntimeError"

\* a body with all three keys gave the first choice's content, which the
\* caller received
C13_Witness ==
    /\ hist.caller # 0
    /\ hist.invokes # <<>>
    /\ hist.invokes[1].got.kind = "body"
    /\ hist.invokes[1].got.body.keys = {"choices", "message", "content"}
    /\ hist.invokes[1].got.body.message = Other
    /\ hist.invokes[1].reply = <<"h", "i", "\n">>
    /\ future[hist.caller].state = "result"
    /\ future[hist.caller].result.reply = <<"h", "i", "\n">>

\* C14: a call that has resolved its target makes every invocation, the
\* corrective one included, with the agent definition, the timeouts and the
\* retry policy its first invocation read, and does not fail on looking its
\* agent up again, whatever reloads happen while it is suspended.
C14_CallCompletesAgainstStartSnapshot ==
    (hist.caller # 0 /\ hist.invokes # <<>>) =>
        /\ \A i \in DOMAIN hist.invokes :
              /\ hist.invokes[i].agent = hist.invokes[1].agent
              /\ hist.invokes[i].timeout = hist.invokes[1].timeout
              /\ hist.invokes[i].max_attempts = hist.invokes[1].max_attempts
              /\ hist.invokes[i].base = hist.invokes[1].base
        /\ hist.exc.type # "KeyError"

\* the part of C14 about the removed agent alone
C14_NoLookupFailureAfterResolution ==
    (hist.caller # 0 /\ hist.invokes # <<>>) => hist.exc.type # "KeyError"

\* What a source version holds, read off its sections one by one.
SectionNumber(raw, default) == IF raw.t = "absent" THEN default ELSE raw.n
IsNumber(raw) == raw.t \in {"absent", "num", "bool"}
AgentNames(v) == {SourceVersions[v].agents[i].name : i \in DOMAIN SourceVersions[v].agents}
EntryOf(v, name) ==
    CHOOSE e \in {SourceVersions[v].agents[i] : i \in DOMAIN SourceVersions[v].agents} :
        e.name = name
PromptMissing(v) ==
    /\ v # NoFile
    /\ \E name \in AgentNames(v) :
          EntryOf(v, name).system_prompt \notin DOMAIN SourceVersions[v].files
Convertible(v) ==
    LET src == SourceVersions[v]
    IN  IsNumber(src.timeouts.a) /\ IsNumber(src.timeouts.b)
        /\ IsNumber(src.retries.a) /\ IsNumber(src.retries.b)
AgentsFrom(v) ==
    /\ DOMAIN cfg.agent_configs = AgentNames(v)
    /\ DOMAIN cfg.system_prompts = AgentNames(v)
    /\ \A name \in AgentNames(v) :
          /\ cfg.agent_configs[name].endpoint = EntryOf(v, name).endpoint
          /\ cfg.agent_configs[name].system_prompt_path = EntryOf(v, name).system_prompt
          /\ cfg.system_prompts[name] =
                SourceVersions[v].files[EntryOf(v, name).system_prompt]
TimeoutFrom(v) ==
    /\ cfg.timeout_config.request_sec =
          SectionNumber(SourceVersions[v].timeouts.a, DefaultRequestSec)
    /\ cfg.timeout_config.connect_sec =
          SectionNumber(SourceVersions[v].timeouts.b, DefaultConnectSec)
RetryFrom(v) ==
    /\ cfg.retry_config.max_attempts =
          SectionNumber(SourceVersions[v].retries.a, DefaultMaxAttempts)
    /\ cfg.retry_config.base_backoff_sec =
          SectionNumber(SourceVersions[v].retries.b, DefaultBaseBackoffSec)
SecurityFrom(v) ==
    /\ cfg.security_config.enabled = ToBool(Get(SourceVersions[v].security.b, Bool(FALSE)))
    /\ cfg.security_config.token_env = ToTokenEnv(SourceVersions[v].security.a)

\* C15: whenever another coroutine can run, the agents, the prompts and the
\* timeout, retry and security policies the Router holds are either the
\* built-in ones of a Router that has loaded nothing, or all those of one
\* and the same version of the source.
C15_SnapshotFromOneVersion ==
    \/ cfg = InitialConfig
    \/ \E v \in Versions :
          /\ ~PromptMissing(v) /\ Convertible(v)
          /\ AgentsFrom(v) /\ TimeoutFrom(v) /\ RetryFrom(v) /\ SecurityFrom(v)

\* what each handler that calls ensure_latest_config shows when the call raised
StartupStep == startCalls' # startCalls
VerifySteps == {c \in Callers : cpc[c] = "idle" /\ cpc'[c] # "idle"}
SendStep == startedOrder' # startedOrder
EnsureRaised(what) ==
    /\ StartupStep => started' = started
    /\ \A c \in VerifySteps : cpc'[c] = "done" /\ http'[c] = 500 /\ queue' = queue
    /\ SendStep =>
          /\ hist'.exc = Exc("RuntimeError", what, hist'.caller, 0)
          /\ future'[hist'.caller].exc = hist'.exc
          /\ sessions' = sessions
EnsureReturned ==
    \/ ~started /\ started'
    \/ \E c \in VerifySteps : cpc'[c] = "waiting"
    \/ SendStep /\ hist'.checked

\* C16: a call of ensure_latest_config on a source one of whose agents has no
\* prompt file raises the prompt-not-found error and leaves every
\* configuration field, the stored modification time included, as it was,
\* wherever the agent stands among the entries; the stored modification time
\* changes only in a reload that runs to its end.
C16_PromptMissingAbortsReload ==
    [][ /\ (PromptMissing(disk.version) /\ (StartupStep \/ VerifySteps # {} \/ SendStep)) =>
              /\ cfg' = cfg
              /\ parses' = parses
              /\ EnsureRaised("PromptNotFound")
        /\ cfg'.config_mtime # cfg.config_mtime =>
              /\ parses' = parses + 1
              /\ ~PromptMissing(disk.version)
              /\ cfg'.config_mtime = disk.mtime
      ]_vars

\* a send_message call found the second agent's prompt missing: its caller got
\* the error and the snapshot loaded at startup is still in place
C16_Witness ==
    \E c \in Callers :
        /\ future[c].state = "exception"
        /\ future[c].exc = Exc("RuntimeError", "PromptNotFound", c, 0)
        /\ http[c] = 500
        /\ disk.version = 3
        /\ cfg = EnsureLatestConfig(InitialConfig, [version |-> 1, mtime |-> 1]).R

\* the same with the first agent's prompt missing
C16_WitnessFirstAgent ==
    \E c \in Callers :
        /\ future[c].exc = Exc("RuntimeError", "PromptNotFound", c, 0)
        /\ disk.version = 6
        /\ cfg.config_mtime = 1

\* C17: every reload that runs to its end loads a source newer than the stored
\* one (so there is at most one per change of the source), a call that
\* returns leaves the current source loaded (so there is one), and a call on
\* a source that is not newer changes nothing.
C17_OneReloadPerChange ==
    [][ /\ parses' \in {parses, parses + 1}
        /\ parses' <= edits' + 1
        /\ parses' # parses =>
              /\ cfg.config_mtime = NoneMtime \/ cfg.config_mtime < disk.mtime
              /\ cfg'.config_mtime = disk.mtime
        /\ (cfg.config_mtime # NoneMtime /\ disk.mtime <= cfg.config_mtime) =>
              /\ cfg' = cfg
              /\ parses' = parses
        /\ EnsureReturned => cfg'.config_mtime = disk.mtime
      ]_vars

\* one change of the source after startup, two reloads in all, and two
\* send_message calls that both ran on the replaced source
C17_Witness ==
    /\ edits = 1 /\ parses = 2
    /\ cfg.config_mtime = disk.mtime
    /\ Len(startedOrder) = 2
    /\ hist.checked
    /\ <<"pm", "s1">> \in DOMAIN seeded
    /\ seeded[<<"pm", "s1">>] = PromptPM2
    /\ \A c \in 1..2 : cpc[c] = "done" /\ http[c] \in {200, 400}

\* C18: a call of ensure_latest_config while the source is absent raises the
\* configuration-missing error and leaves every configuration field as it
\* was: a loaded snapshot stays in place, and a Router that has loaded
\* nothing stays without agents and its queue is not started.
C18_MissingSourceKeepsSnapshot ==
    [][ disk.version = NoFile =>
          /\ cfg' = cfg
          /\ parses' = parses
          /\ EnsureRaised("ConfigMissing")
          /\ cfg = InitialConfig => cfg'.agent_configs = EmptyMap /\ ~started'
      ]_vars

\* the source was removed after startup: a send_message call got the error,
\* and the snapshot loaded at startup is still in place
C18_Witness ==
    \E c \in Callers :
        /\ future[c].state = "exception"
        /\ future[c].exc = Exc("RuntimeError", "ConfigMissing", c, 0)
        /\ http[c] = 500
        /\ disk.version = NoFile
        /\ cfg = EnsureLatestConfig(InitialConfig, [version |-> 1, mtime |-> 1]).R

\* startup on an absent source failed and left the Router without agents
C18_WitnessFirstLoad ==
    /\ startCalls >= 1 /\ ~started
    /\ disk.version = NoFile
    /\ cfg = InitialConfig

\* C19: a /chat request is answered 400 only when its target is unknown; a
\* failure of the delivery (transport, status, undecodable body, unrecognized
\* or malformed shape, retries exhausted) is never answered 400.
C19_BadRequestOnlyForUnknownTarget ==
    \A c \in Callers :
        http[c] = 400 =>
            /\ future[c].state = "exception"
            /\ future[c].exc.what = "UnknownAgent"

\* C20: no step removes a session or changes a turn a transcript already
\* has: every transcript is extended at its end only, a step creates at most
\* one session, seeded with one system turn, and the prompt a session was
\* seeded with is never replaced.
C20_SessionsOnlyGrow ==
    [][ /\ \A key \in DOMAIN sessions :
              /\ key \in DOMAIN sessions'
              /\ IsPrefix(sessions[key], sessions'[key])
              /\ seeded'[key] = seeded[key]
        /\ Cardinality(DOMAIN sessions' \ DOMAIN sessions) <= 1
        /\ \A key \in DOMAIN sessions' \ DOMAIN sessions :
              /\ sessions'[key][1].role = "system"
              /\ \A i \in 2..Len(sessions'[key]) : sessions'[key][i].role # "system"
      ]_vars

\* a session of an agent that a reload has removed is still there, with the
\* turns of its completed call, after a later call has failed
C20_Witness ==
    \E key \in DOMAIN sessions :
        /\ key[1] \notin DOMAIN cfg.agent_configs
        /\ Len(sessions[key]) >= 3
        /\ sessions[key][Len(sessions[key])].role = "assistant"
        /\ hist.caller = 2
        /\ hist.exc # NoExc
        /\ future[2].state = "exception"

\* The value a section declares for a key, or the documented default.
Declared(raw, default) == IF raw.t = "absent" THEN default ELSE raw.n
DeclaredTimeout(v) ==
    TimeoutConfig(Declared(SourceVersions[v].timeouts.a, 120),
                  Declared(SourceVersions[v].timeouts.b, 10))
DeclaredRetry(v) ==
    RetryConfig(Declared(SourceVersions[v].retries.a, 2),
                Declared(SourceVersions[v].retries.b, 2))
DeclaredSecurity(v) ==
    SecurityConfig(IF SourceVersions[v].security.a.t = "absent" THEN ""
                   ELSE SourceVersions[v].security.a.s,
                   IF SourceVersions[v].security.b.t = "absent" THEN FALSE
                   ELSE SourceVersions[v].security.b.n = 1)
PoliciesDeclaredBy(R, v) ==
    /\ R.timeout_config = DeclaredTimeout(v)
    /\ R.retry_config = DeclaredRetry(v)
    /\ R.security_config = DeclaredSecurity(v)

\* C21: a reload that runs to its end, and any call of ensure_latest_config
\* that returns, leaves the timeout, retry and security policies equal to the
\* values the source declares, with 120, 10, 2, 2 and (disabled, no token
\* variable) for what it does not declare; the security policy changes in no
\* other step, so what security_config returns is that of the latest reload
\* that ran to its end.
C21_PoliciesAsDeclared ==
    [][ /\ parses' # parses => PoliciesDeclaredBy(cfg', disk.version)
        /\ EnsureReturned => PoliciesDeclaredBy(cfg', disk.version)
        /\ cfg'.security_config # cfg.security_config => parses' # parses
      ]_vars

\* after startup on a source without optional sections (all defaults), the
\* source was replaced by one declaring a request timeout, one attempt and a
\* token variable; a request has been let in by verify_token and answered
C21_Witness ==
    /\ edits = 1 /\ parses = 2
    /\ disk.version = 2
    /\ cfg.timeout_config = TimeoutConfig(5, 10)
    /\ cfg.retry_config = RetryConfig(1, 2)
    /\ cfg.security_config = SecurityConfig("TEST_TOKEN", TRUE)
    /\ \E c \in Callers : cpc[c] = "done" /\ http[c] = 200

\* startup on the source without optional sections gave every default
C21_WitnessDefaults ==
    /\ started /\ parses = 1 /\ disk.version = 1
    /\ cfg.timeout_config = TimeoutConfig(120, 10)
    /\ cfg.retry_config = RetryConfig(2, 2)
    /\ cfg.security_config = SecurityConfig("", FALSE)

\* C22: when the latest send_message call failed in a delivery, its caller
\* has that failure, and the session transcript is the one the call started
\* from followed by the user turn (and by the corrective system turn when the
\* failure is the second invocation's), with no assistant turn; the first
\* invocation of every call sends the whole transcript of its session plus
\* the new user turn, turns left by failed calls included.
C22_FailedDeliveryKeepsTurns ==
    hist.caller # 0 =>
        /\ hist.exc.what = "delivery" =>
              /\ task[hist.caller].pc = "failed"
              /\ future[hist.caller].state = "exception"
              /\ future[hist.caller].exc = hist.exc
              /\ ~hist.returned
              /\ Len(hist.invokes) = 1 => sessions[HKey] = HBase \o <<UserTurn>>
              /\ Len(hist.invokes) = 2 =>
                    sessions[HKey] = HBase \o <<UserTurn, CorrectiveTurn>>
              /\ sessions[HKey][Len(sessions[HKey])].role # "assistant"
        /\ hist.invokes # <<>> =>
              /\ hist.invokes[1].len = Len(HBase) + 1
              /\ hist.existed => HBase = hist.before[HKey]

\* a call failed in its corrective invocation and left the user and
\* corrective turns; the next call on the session started from them
C22_Witness ==
    /\ hist.caller = 2
    /\ hist.existed
    /\ future[1].state = "exception" /\ future[1].exc.what = "delivery"
    /\ HKey = <<req[1].target, req[1].session_id>>
    /\ Len(hist.before[HKey]) = 3
    /\ hist.before[HKey][2] = Turn("user", req[1].message)
    /\ hist.before[HKey][3] = CorrectiveTurn
    /\ hist.invokes # <<>>
    /\ hist.invokes[1].len = 4
    /\ hist.exc.what = "delivery"

\* C23: a step changes or creates the transcript of no key other than that
\* of the send_message call which takes the step, and removes none.
C23_OtherKeysUnchanged ==
    [][ LET c == hist'.caller
            active == IF c = 0 THEN {} ELSE {<<req[c].target, req[c].session_id>>}
        IN  /\ \A key \in DOMAIN sessions \ active :
                  key \in DOMAIN sessions' /\ sessions'[key] = sessions[key]
            /\ (DOMAIN sessions' \ DOMAIN sessions) \subseteq active
      ]_vars

\* two sessions of the same target: the first holds a completed exchange,
\* the call on the second has failed
C23_Witness ==
    \E t \in Targets :
        /\ <<t, "s1">> \in DOMAIN sessions /\ <<t, "s2">> \in DOMAIN sessions
        /\ hist.caller = 2
        /\ HKey[1] = t
        /\ hist.exc.what = "delivery"
        /\ \E sid \in SessionIds :
              /\ sid # HKey[2]
              /\ Len(sessions[<<t, sid>>]) = 3
              /\ sessions[<<t, sid>>] = hist.before[<<t, sid>>]

\* C24: with the worker started and stop never called, every caller waiting
\* in submit eventually comes out of it, with the result or the exception of
\* its task, whether it entered before or after start and whatever became of
\* the tasks before its own.
C24_EverySubmitReturns ==
    \A c \in Callers : (cpc[c] = "waiting" /\ started) ~> (cpc[c] = "done")

\* the first task failed and the task queued behind it gave its caller the
\* reply
C24_Witness ==
    /\ started /\ ~stopCalled
    /\ cpc[1] = "done" /\ http[1] = 500 /\ future[1].state = "exception"
    /\ cpc[2] = "done" /\ http[2] = 200 /\ future[2].state = "result"
    /\ queue = <<>>

\* two requests are waiting in submit and the worker has not been started
C24_WitnessBeforeStart ==
    /\ ~started /\ Len(queue) = 2
    /\ cpc[1] = "waiting" /\ cpc[2] = "waiting"

\* C25: whatever the number of start calls, the queue has created at most
\* one worker task: none before the first start has run, one ever after, and
\* _worker_task is that one.
C25_AtMostOneWorkerCreated ==
    /\ Len(workers) <= 1
    /\ started <=> Len(workers) = 1
    /\ worker_task = Len(workers)

\* start has been called twice (the second time after stop) and there is
\* one worker task
C25_Witness ==
    /\ startCalls = 2
    /\ stopCalled
    /\ Len(workers) = 1
    /\ started

====
